---- MODULE Spec2Model ----
(***************************************************************************)
(* Branch-and-cut TSP solver with lazily separated subtour-elimination     *)
(* constraints (BranchAndCutIntegerSolver), the TSPSolution cost, and the  *)
(* Held-Karp dynamic program tsp_dp, of tsp_integer_bc1.ipynb.             *)
(*                                                                         *)
(* Arc values are held in tenths (10 is the value 1.0, 5 is 0.5). Arc      *)
(* costs are floats in the program and integers here: thousandths, the     *)
(* float rounded to the nearest (10000 is the cost 10.0, 14142 is          *)
(* 200**0.5 = 14.1421...).                                                 *)
(***************************************************************************)
EXTENDS Integers, Sequences, FiniteSets, TLC

VARIABLES
    n,          \* tsp.n: number of vertices of the instance
    cost,       \* tsp.cost: arc -> cost
    ctl,        \* where solve() stands: CONFIGURED, SEARCHING, OPTIMAL, INFEASIBLE, ERROR
    status,     \* m.Status of the engine: LOADED, OPTIMAL, INFEASIBLE, INTERRUPTED
    cuts,       \* the lazy constraints the engine holds (each: the set of arcs summed)
    where,      \* the engine's current callback code: NONE, POLLING, MIPSOL
    cand,       \* the values cbGetSolution reads: the candidate of the running callback
    xfinal,     \* the values .X reads: the incumbent
    sepPc,      \* where __separate stands: idle, entry, loop, returned, raised
    remaining,  \* __separate's local set
    traced,     \* the subtours traced by the running/last __separate call, in order
    emitted,    \* the cuts handed to cbLazy by the running/last __separate call, in order
    optimizeCalls, \* number of m.optimize calls made
    finalReads, \* number of __tour_starting_at calls made by solve() after optimize
    result,     \* what solve() / TSPSolution() gave back
    dpOut,      \* what tsp_dp gave back
    verdict,    \* the cross-check cell's comparison
    probe,      \* what a direct __next_vertex call gave back
    presented   \* the candidates the engine has called the callback with at MIPSOL

vars == <<n, cost, ctl, status, cuts, where, cand, xfinal, sepPc, remaining, traced,
          emitted, optimizeCalls, finalReads, result, dpOut, verdict, probe,
          presented>>

-----------------------------------------------------------------------------
(* Bounds of the model *)

\* largest instance of the branch-and-cut specification
MaxN == 4
\* largest instance of the separator specification
MaxSepN == 5
\* largest instance of the function specification (tsp_dp, TSPSolution)
MaxFunN == 4
\* largest instance of the successor-lookup specification
MaxNextN == 3
\* the two arc costs an instance of the family uses
LightCost == 1
HeavyCost == 3
\* most arcs of heavy cost in an instance of the branch-and-cut specification
MaxHeavy == 2
\* most arcs of heavy cost in an instance of the fair branch-and-cut specification
MaxFairHeavy == 1
\* most arcs of heavy cost in an instance of the function specification
MaxFunHeavy == 3
\* most calls of solve() on one solver
MaxSolveCalls == 2
\* most arc values the engine sets away from 0 in the successor-lookup specification
MaxWrites == 3

-----------------------------------------------------------------------------
(* Instance: TSPIntance *)

\* vertices(): range(self.n)
VerticesOf(k) == 0 .. (k - 1)

\* arcs(): the keys of cost, all (i, j) with i != j
ArcsOf(k) == {a \in VerticesOf(k) \X VerticesOf(k) : a[1] # a[2]}

Vertices == VerticesOf(n)
Arcs == ArcsOf(n)

\* the thousandths in one unit of cost
CostScale == 1000

\* the largest r in lo .. hi with r * r <= v
RECURSIVE ISqrtBetween(_, _, _)
ISqrtBetween(v, lo, hi) ==
    IF lo >= hi THEN lo
    ELSE LET mid == (lo + hi + 1) \div 2
         IN IF mid * mid <= v THEN ISqrtBetween(v, mid, hi)
            ELSE ISqrtBetween(v, lo, mid - 1)

\* v**0.5 for v in millionths, in thousandths, rounded to the nearest:
\* the floor of (4v)**0.5 is 2r or 2r + 1 for the root r rounded down, and
\* 46340 is the largest root of a 32-bit integer
Root(v) == (ISqrtBetween(4 * v, 0, 46340) + 1) \div 2

\* ((dx)**2 + (dy)**2)**0.5 in thousandths, coordinates within 0 .. 10
Euclid(dx, dy) == Root((dx * dx + dy * dy) * CostScale * CostScale)

\* TSPIntance.__init__: the assert on the lengths, then the cost of every arc
\* from the coordinates
InstanceCost(x, y) ==
    IF Len(x) # Len(y) THEN "AssertionError"
    ELSE [a \in ArcsOf(Len(x)) |->
             Euclid(x[a[1] + 1] - x[a[2] + 1], y[a[1] + 1] - y[a[2] + 1])]

\* the square (0,0), (10,0), (10,10), (0,10)
SquareX == <<0, 10, 10, 0>>
SquareY == <<0, 0, 10, 10>>
SquareCost == InstanceCost(SquareX, SquareY)

\* two pairs of near vertices far from each other: the two 2-cycles are
\* cheaper than every tour
ClusterX == <<0, 0, 10, 10>>
ClusterY == <<0, 1, 0, 1>>
ClusterCost == InstanceCost(ClusterX, ClusterY)

\* the instances given by coordinates
Placed(k) ==
    (IF k = Len(SquareX) THEN {SquareCost} ELSE {})
        \cup (IF k = Len(ClusterX) THEN {ClusterCost} ELSE {})

\* the subsets of S with at most h elements
RECURSIVE SubsetsUpTo(_, _)
SubsetsUpTo(S, h) ==
    IF h = 0 THEN {{}}
    ELSE LET P == SubsetsUpTo(S, h - 1)
         IN P \cup {G \cup {a} : G \in P, a \in S}

\* cost mappings with at most h arcs of heavy cost, the others of light cost
CostFamily(k, h) ==
    {[a \in ArcsOf(k) |-> IF a \in H THEN HeavyCost ELSE LightCost] :
        H \in SubsetsUpTo(ArcsOf(k), h)}

-----------------------------------------------------------------------------
(* Arc values *)

\* x > 0.5
OverHalf(x) == x > 5

NoValues == <<>>

RECURSIVE SumOver(_, _)
SumOver(S, f) ==
    IF S = {} THEN 0
    ELSE LET a == CHOOSE b \in S : TRUE IN f[a] + SumOver(S \ {a}, f)

\* the values __next_vertex reads: cbGetSolution inside a callback, .X once
\* cbGetSolution raises GurobiError
ValueView == IF where = "MIPSOL" THEN cand ELSE xfinal

-----------------------------------------------------------------------------
(* Cycle extraction: __next_vertex, __tour_starting_at *)

\* the for loop of __next_vertex from j on; reading a variable that holds no
\* value (no solution to read .X from) raises as well
RECURSIVE ScanSuccessor(_, _, _, _)
ScanSuccessor(xv, k, i, j) ==
    IF j >= k THEN [raised |-> TRUE, val |-> i]
    ELSE IF j = i THEN ScanSuccessor(xv, k, i, j + 1)
    ELSE IF <<i, j>> \notin DOMAIN xv THEN [raised |-> TRUE, val |-> i]
    ELSE IF OverHalf(xv[<<i, j>>]) THEN [raised |-> FALSE, val |-> j]
    ELSE ScanSuccessor(xv, k, i, j + 1)

\* __next_vertex(i): raised stands for RuntimeError("Vertex i has no successor!")
next_vertex(xv, k, i) == ScanSuccessor(xv, k, i, 0)

\* the while loop of __tour_starting_at; a tour longer than k has closed a cycle
\* that does not hold i, and the loop never ends
RECURSIVE TraceLoop(_, _, _, _, _)
TraceLoop(xv, k, i, tour, current) ==
    IF current.raised THEN [kind |-> "raised", tour |-> tour]
    ELSE IF current.val = i THEN [kind |-> "tour", tour |-> tour]
    ELSE IF Len(tour) >= k THEN [kind |-> "diverges", tour |-> tour]
    ELSE TraceLoop(xv, k, i, Append(tour, current.val),
                   next_vertex(xv, k, current.val))

\* __tour_starting_at(i)
tour_starting_at(xv, k, i) == TraceLoop(xv, k, i, <<i>>, next_vertex(xv, k, i))

SeqSet(s) == {s[p] : p \in 1 .. Len(s)}

\* a fault: the cut sums the arcs inside the subtour
add_sec_inside(k, subtour) ==
    {a \in ArcsOf(k) : a[1] \in SeqSet(subtour) /\ a[2] \in SeqSet(subtour)}

\* __add_sec_for(subtour): the arcs of the sum handed to cbLazy (sum >= 1)
add_sec_for(k, subtour) ==
    {a \in ArcsOf(k) : a[1] \in SeqSet(subtour) /\ a[2] \notin SeqSet(subtour)}

\* a fault: len(subtour) <= self.tsp.n
is_full_tour_le(k, subtour) == Len(subtour) <= k

\* len(subtour) == self.tsp.n
is_full_tour(k, subtour) == Len(subtour) = k

\* a fault: remaining -= set(subtour) is left out
shrink_pop_only(rem, start, subtour) == rem \ {start}

\* remaining after start = remaining.pop() and remaining -= set(subtour)
shrink(rem, start, subtour) == (rem \ {start}) \ SeqSet(subtour)

-----------------------------------------------------------------------------
(* The model handed to the engine: __init__, __build_model, cbLazy *)

\* the arc values in which every vertex i has the one outgoing arc (i, p[i])
AssignOf(k, p) == [a \in ArcsOf(k) |-> IF p[a[1]] = a[2] THEN 10 ELSE 0]

\* x.sum(i, '*'): the sum of the values of the arcs (i, j), j = from .. k-1
RECURSIVE RowSum(_, _, _, _)
RowSum(xv, k, i, from) ==
    IF from >= k THEN 0
    ELSE (IF from = i THEN 0 ELSE xv[<<i, from>>]) + RowSum(xv, k, i, from + 1)

\* x.sum('*', i): the sum of the values of the arcs (j, i), j = from .. k-1
RECURSIVE ColSum(_, _, _, _)
ColSum(xv, k, i, from) ==
    IF from >= k THEN 0
    ELSE (IF from = i THEN 0 ELSE xv[<<from, i>>]) + ColSum(xv, k, i, from + 1)

\* x.sum(i, '*') == 1 for every vertex i
OutDegreeOK(k, xv) == \A i \in VerticesOf(k) : RowSum(xv, k, i, 0) = 10

\* x.sum('*', i) == 1 for every vertex i
InDegreeOK(k, xv) == \A i \in VerticesOf(k) : ColSum(xv, k, i, 0) = 10

\* the binary assignments that satisfy the constraints of __build_model
DegreeValidOf(k) ==
    {AssignOf(k, p) :
        p \in {q \in [VerticesOf(k) -> VerticesOf(k)] :
                  OutDegreeOK(k, AssignOf(k, q)) /\ InDegreeOK(k, AssignOf(k, q))}}

\* the same, computed once for every size of instance
LargestN == IF MaxN > MaxSepN THEN MaxN ELSE MaxSepN
DegreeValidTable == [k \in 1 .. LargestN |-> DegreeValidOf(k)]
DegreeValid(k) == DegreeValidTable[k]

\* a lazy constraint: the sum of the values over its arcs is >= 1
SatisfiesCut(xv, cut) == SumOver(cut, xv) >= 10

\* the objective: obj=self.tsp.cost on the arc variables
RECURSIVE ObjectiveFrom(_, _, _, _, _)
ObjectiveFrom(k, c, xv, i, j) ==
    IF i >= k THEN 0
    ELSE IF j >= k THEN ObjectiveFrom(k, c, xv, i + 1, 0)
    ELSE (IF i = j THEN 0 ELSE c[<<i, j>>] * xv[<<i, j>>])
         + ObjectiveFrom(k, c, xv, i, j + 1)

Objective(k, c, xv) == ObjectiveFrom(k, c, xv, 0, 0) \div 10

\* the integral points of the engine's current model
Feasible(k, cs) == {xv \in DegreeValid(k) : \A cut \in cs : SatisfiesCut(xv, cut)}

\* the cheapest points of the engine's current model
Cheapest(k, c, cs) ==
    UNION {{xv \in DOMAIN obj : \A yv \in DOMAIN obj : obj[xv] <= obj[yv]} :
              obj \in {[xv \in Feasible(k, cs) |-> Objective(k, c, xv)]}}

-----------------------------------------------------------------------------
(* Held-Karp: tsp_dp *)

RECURSIVE MinOf(_)
MinOf(S) ==
    LET a == CHOOSE b \in S : TRUE
    IN IF S = {a} THEN a
       ELSE LET m == MinOf(S \ {a}) IN IF a < m THEN a ELSE m

RECURSIVE dp(_, _, _)

\* a fault: the arc into last is read the wrong way round, cost[(last, k)]
dp_reversed(c, subset, last) ==
    IF Cardinality(subset) = 1 THEN c[<<0, last>>]
    ELSE LET subset_without_last == subset \ {last}
         IN MinOf({dp(c, subset_without_last, j) + c[<<last, j>>] :
                      j \in subset_without_last})

\* dp(subset, last); the memo dictionary only saves recomputation
dp(c, subset, last) ==
    IF Cardinality(subset) = 1 THEN c[<<0, last>>]
    ELSE LET subset_without_last == subset \ {last}
         IN MinOf({dp(c, subset_without_last, j) + c[<<j, last>>] :
                      j \in subset_without_last})

\* tsp_dp(tsp): min() of an empty sequence raises ValueError
tsp_dp(k, c) ==
    LET full_set == 1 .. (k - 1)
    IN IF full_set = {} THEN [kind |-> "ValueError", val |-> 0]
       ELSE [kind |-> "value",
             val |-> MinOf({dp(c, full_set, last) + c[<<last, 0>>] : last \in full_set})]

-----------------------------------------------------------------------------
(* TSPSolution *)

\* the pairs (i, j) of "for i in tour[:-1] for j in tour[1:]", in order
PairsOf(tour) ==
    IF Len(tour) < 2 THEN <<>>
    ELSE [q \in 1 .. (Len(tour) - 1) * (Len(tour) - 1) |->
            <<tour[((q - 1) \div (Len(tour) - 1)) + 1],
              tour[((q - 1) % (Len(tour) - 1)) + 2]>>]

RECURSIVE SumSeq(_)
SumSeq(s) == IF s = <<>> THEN 0 ELSE Head(s) + SumSeq(Tail(s))

NoMsg == <<>>

\* TSPSolution(tour, instance=tsp): tsp.cost[i, j] raises KeyError off the arcs
SolutionFromInstance(tour, c) ==
    IF \E q \in 1 .. Len(PairsOf(tour)) : PairsOf(tour)[q] \notin DOMAIN c
    THEN [kind |-> "KeyError", tour |-> <<>>, cost |-> 0, msg |-> NoMsg]
    ELSE [kind |-> "Solution", tour |-> tour,
          cost |-> SumSeq([q \in 1 .. Len(PairsOf(tour)) |-> c[PairsOf(tour)[q]]]),
          msg |-> NoMsg]

\* TSPSolution(tour, cost=...)
SolutionFromCost(tour, given) ==
    [kind |-> "Solution", tour |-> tour, cost |-> given, msg |-> NoMsg]

NoResult == [kind |-> "none", tour |-> <<>>, cost |-> 0, msg |-> NoMsg]

\* RuntimeError("Could not solve TSP model to optimality")
NotOptimalError ==
    [kind |-> "RuntimeError", tour |-> <<>>, cost |-> 0,
     msg |-> <<"Could not solve TSP model to optimality">>]

\* RuntimeError(f"Vertex {i} has no successor!")
NoSuccessorError ==
    [kind |-> "RuntimeError", tour |-> <<>>, cost |-> 0,
     msg |-> <<"Vertex ", " has no successor!">>]

NoDp == [kind |-> "none", val |-> 0]
NoProbe == [kind |-> "none", of |-> 0, val |-> 0]

-----------------------------------------------------------------------------
(* Initial states *)

\* a solver just constructed: nothing optimized, no callback running
Blank ==
    /\ ctl = "CONFIGURED" /\ status = "LOADED" /\ cuts = {}
    /\ where = "NONE" /\ cand = NoValues /\ xfinal = NoValues
    /\ sepPc = "idle" /\ remaining = {} /\ traced = <<>> /\ emitted = <<>>
    /\ optimizeCalls = 0 /\ finalReads = 0
    /\ result = NoResult /\ dpOut = NoDp /\ verdict = "none" /\ probe = NoProbe
    /\ presented = {}

\* BranchAndCutIntegerSolver(tsp) on an instance of the family or on one given
\* by coordinates
Init ==
    /\ n \in 1 .. MaxN
    /\ cost \in CostFamily(n, MaxHeavy) \cup Placed(n)
    /\ Blank

-----------------------------------------------------------------------------
(* solve() and the engine's search *)

\* solve(), up to and into m.optimize(callback): on a new solver, or again on
\* one whose earlier solve() has returned or raised; the engine takes up its
\* search with the cuts and the incumbent it holds
solve_begin ==
    /\ ctl # "SEARCHING"
    /\ optimizeCalls < MaxSolveCalls
    /\ ctl' = "SEARCHING"
    /\ status' = "LOADED"
    /\ optimizeCalls' = optimizeCalls + 1
    /\ UNCHANGED <<n, cost, cuts, where, cand, xfinal, sepPc, remaining,
                   traced, emitted, finalReads, result, dpOut, verdict, probe,
                   presented>>

\* the engine calls the callback outside MIPSOL (presolve, simplex, node, message)
EnginePoll ==
    /\ ctl = "SEARCHING" /\ status = "LOADED" /\ sepPc = "idle"
    /\ where' = "POLLING"
    /\ sepPc' = "entry"
    /\ UNCHANGED <<n, cost, ctl, status, cuts, cand, xfinal, remaining, traced,
                   emitted, optimizeCalls, finalReads, result, dpOut, verdict, probe,
                   presented>>

\* the integral points the engine may take for a new incumbent: those of its
\* current model, cheapest or not (a heuristic's or a node's), that are cheaper
\* than the incumbent it holds
Improving(k, c, cs, inc) ==
    IF inc = NoValues THEN Feasible(k, cs)
    ELSE {xv \in Feasible(k, cs) : Objective(k, c, xv) < Objective(k, c, inc)}

\* the engine has a new integral point of its current model and calls the
\* callback with where = MIPSOL
EngineCandidate ==
    /\ ctl = "SEARCHING" /\ status = "LOADED" /\ sepPc = "idle"
    /\ \E xv \in Improving(n, cost, cuts, xfinal) :
        cand' = xv
    /\ where' = "MIPSOL"
    /\ presented' = presented \cup {cand'}
    /\ sepPc' = "entry"
    /\ UNCHANGED <<n, cost, ctl, status, cuts, xfinal, remaining, traced,
                   emitted, optimizeCalls, finalReads, result, dpOut, verdict, probe>>

\* __separate, lines 120-125: return unless where is MIPSOL, else start the loop
separate_entry ==
    /\ sepPc = "entry"
    /\ IF where # "MIPSOL"
       THEN /\ sepPc' = "returned"
            /\ UNCHANGED <<remaining, traced, emitted>>
       ELSE /\ sepPc' = "loop"
            /\ remaining' = Vertices
            /\ traced' = <<>>
            /\ emitted' = <<>>
    /\ UNCHANGED <<n, cost, ctl, status, cuts, where, cand, xfinal,
                   optimizeCalls, finalReads, result, dpOut, verdict, probe,
                   presented>>

\* one pass of the while loop of __separate, lines 128-140, with the loop test
\* that follows it: pop any vertex, trace its tour, return on a full tour, else
\* hand the cut to cbLazy and drop the tour's vertices
separate_iter ==
    /\ sepPc = "loop"
    /\ remaining # {}
    /\ \E start \in remaining :
        \E t \in {tour_starting_at(ValueView, n, start)} :
        \E rest \in {shrink(remaining, start, t.tour)} :
           IF t.kind # "tour"
           THEN /\ sepPc' = "raised"
                /\ remaining' = remaining \ {start}
                /\ UNCHANGED <<traced, emitted, cuts>>
           ELSE /\ traced' = Append(traced, t.tour)
                /\ IF is_full_tour(n, t.tour)
                   THEN /\ sepPc' = "returned"
                        /\ remaining' = remaining \ {start}
                        /\ UNCHANGED <<emitted, cuts>>
                   ELSE /\ emitted' = Append(emitted, add_sec_for(n, t.tour))
                        /\ cuts' = cuts \cup {add_sec_for(n, t.tour)}
                        /\ remaining' = rest
                        /\ sepPc' = IF rest = {} THEN "returned" ELSE "loop"
    /\ UNCHANGED <<n, cost, ctl, status, where, cand, xfinal,
                   optimizeCalls, finalReads, result, dpOut, verdict, probe,
                   presented>>

\* the callback has returned: a MIPSOL candidate that drew no lazy constraint
\* becomes the incumbent, one that drew some is dropped
EngineResume ==
    /\ ctl = "SEARCHING" /\ sepPc = "returned"
    /\ sepPc' = "idle"
    /\ where' = "NONE"
    /\ cand' = NoValues
    /\ xfinal' = IF where = "MIPSOL" /\ emitted = <<>> THEN cand ELSE xfinal
    /\ remaining' = {}
    /\ traced' = <<>>
    /\ emitted' = <<>>
    /\ UNCHANGED <<n, cost, ctl, status, cuts,
                   optimizeCalls, finalReads, result, dpOut, verdict, probe,
                   presented>>

\* the search ends: the incumbent is a cheapest point of the model with the
\* cuts it holds, or the model has no integral point
EngineTerminate ==
    /\ ctl = "SEARCHING" /\ status = "LOADED" /\ sepPc = "idle"
    /\ \/ /\ xfinal # NoValues
          /\ xfinal \in Cheapest(n, cost, cuts)
          /\ status' = "OPTIMAL"
       \/ /\ xfinal = NoValues
          /\ Feasible(n, cuts) = {}
          /\ status' = "INFEASIBLE"
    /\ UNCHANGED <<n, cost, ctl, cuts, where, cand, xfinal, sepPc, remaining, traced,
                   emitted, optimizeCalls, finalReads, result, dpOut, verdict, probe,
                   presented>>

\* the search is interrupted from outside
EngineInterrupt ==
    /\ ctl = "SEARCHING" /\ status = "LOADED" /\ sepPc = "idle"
    /\ status' = "INTERRUPTED"
    /\ UNCHANGED <<n, cost, ctl, cuts, where, cand, xfinal, sepPc, remaining, traced,
                   emitted, optimizeCalls, finalReads, result, dpOut, verdict, probe,
                   presented>>

\* a fault: only an infeasible model is taken for a failure
not_optimal_infeasible_only(st) == st = "INFEASIBLE"

\* self.m.Status != GRB.OPTIMAL
not_optimal(st) == st # "OPTIMAL"

\* solve(), lines 113-116, once m.optimize has returned
solve_finish ==
    /\ ctl = "SEARCHING" /\ status # "LOADED"
    /\ IF not_optimal(status)
       THEN /\ result' = NotOptimalError
            /\ ctl' = IF status = "INFEASIBLE" THEN "INFEASIBLE" ELSE "ERROR"
            /\ UNCHANGED finalReads
       ELSE \E t \in {tour_starting_at(ValueView, n, 0)} :
               /\ finalReads' = finalReads + 1
               /\ IF t.kind = "tour"
                  THEN /\ result' = SolutionFromCost(t.tour, Objective(n, cost, xfinal))
                       /\ ctl' = "OPTIMAL"
                  ELSE /\ result' = NoSuccessorError
                       /\ ctl' = "ERROR"
    /\ UNCHANGED <<n, cost, status, cuts, where, cand, xfinal, sepPc, remaining,
                   traced, emitted, optimizeCalls, dpOut, verdict, probe,
                   presented>>

\* the cross-check cell after solve() has returned: tsp_dp on the same instance
\* and abs(solution_bc.cost - dp_tour_cost) < 1e-6
cross_check ==
    /\ result.kind = "Solution" /\ ctl = "OPTIMAL"
    /\ dpOut = NoDp
    /\ dpOut' = tsp_dp(n, cost)
    /\ verdict' = IF dpOut'.kind # "value" THEN "raised"
                  ELSE IF result.cost = dpOut'.val THEN "same" ELSE "different"
    /\ UNCHANGED <<n, cost, ctl, status, cuts, where, cand, xfinal, sepPc, remaining,
                   traced, emitted, optimizeCalls, finalReads, result, probe,
                   presented>>

Next ==
    \/ solve_begin
    \/ EnginePoll
    \/ EngineCandidate
    \/ separate_entry
    \/ separate_iter
    \/ EngineResume
    \/ EngineTerminate
    \/ EngineInterrupt
    \/ solve_finish
    \/ cross_check

Spec == Init /\ [][Next]_vars

\* solve() under an engine that goes on with its search: the Python steps of
\* the callback and of solve() run on once they can, and the engine, however
\* often it polls the callback, comes to its next candidate and to its end
Fairness ==
    /\ WF_vars(separate_entry)
    /\ WF_vars(separate_iter)
    /\ WF_vars(EngineResume)
    /\ SF_vars(EngineCandidate)
    /\ SF_vars(EngineTerminate)
    /\ WF_vars(solve_finish)

InitFair ==
    /\ n \in 1 .. MaxN
    /\ cost \in CostFamily(n, MaxFairHeavy) \cup Placed(n)
    /\ Blank

SpecFair == InitFair /\ [][Next]_vars /\ Fairness

-----------------------------------------------------------------------------
(* The separator on any candidate: a callback entered on any integral point of *)
(* the model of __build_model                                                  *)

InitSep ==
    /\ n \in 2 .. MaxSepN
    /\ cost \in CostFamily(n, 0)
    /\ ctl = "SEARCHING" /\ status = "LOADED" /\ cuts = {}
    /\ \/ where = "POLLING" /\ cand = NoValues
       \/ where = "MIPSOL" /\ cand \in DegreeValid(n)
    /\ xfinal = NoValues
    /\ sepPc = "entry" /\ remaining = {} /\ traced = <<>> /\ emitted = <<>>
    /\ optimizeCalls = 1 /\ finalReads = 0
    /\ result = NoResult /\ dpOut = NoDp /\ verdict = "none" /\ probe = NoProbe
    /\ presented = (IF where = "MIPSOL" THEN {cand} ELSE {})

NextSep ==
    \/ separate_entry
    \/ separate_iter

SpecSep == InitSep /\ [][NextSep]_vars

-----------------------------------------------------------------------------
(* The functions on their own: tsp_dp(tsp) and TSPSolution(tour, instance=tsp) *)

\* the orders of the elements of S
RECURSIVE OrdersOf(_)
OrdersOf(S) ==
    IF S = {} THEN {<<>>}
    ELSE UNION {{<<v>> \o t : t \in OrdersOf(S \ {v})} : v \in S}

\* the orders of all the vertices
ToursOf(k) == OrdersOf(VerticesOf(k))

InitFun ==
    /\ n \in 1 .. MaxFunN
    /\ cost \in CostFamily(n, MaxFunHeavy)
    /\ Blank

\* tsp_dp(tsp)
call_tsp_dp ==
    /\ dpOut = NoDp /\ result = NoResult
    /\ dpOut' = tsp_dp(n, cost)
    /\ UNCHANGED <<n, cost, ctl, status, cuts, where, cand, xfinal, sepPc, remaining,
                   traced, emitted, optimizeCalls, finalReads, result, verdict, probe,
                   presented>>

\* TSPSolution(tour, instance=tsp) on an order of all the vertices
make_solution ==
    /\ dpOut = NoDp /\ result = NoResult
    /\ \E tour \in ToursOf(n) :
        result' = [SolutionFromInstance(tour, cost) EXCEPT !.tour = tour]
    /\ UNCHANGED <<n, cost, ctl, status, cuts, where, cand, xfinal, sepPc, remaining,
                   traced, emitted, optimizeCalls, finalReads, dpOut, verdict, probe,
                   presented>>

NextFun ==
    \/ call_tsp_dp
    \/ make_solution

SpecFun == InitFun /\ [][NextFun]_vars

-----------------------------------------------------------------------------
(* The successor lookup on any arc values: __next_vertex inside a callback *)

InitNext ==
    /\ n \in 1 .. MaxNextN
    /\ cost \in CostFamily(n, 0)
    /\ ctl = "SEARCHING" /\ status = "LOADED" /\ cuts = {}
    /\ where = "MIPSOL" /\ cand = [a \in Arcs |-> 0]
    /\ xfinal = NoValues
    /\ sepPc = "entry" /\ remaining = {} /\ traced = <<>> /\ emitted = <<>>
    /\ optimizeCalls = 1 /\ finalReads = 0
    /\ result = NoResult /\ dpOut = NoDp /\ verdict = "none" /\ probe = NoProbe
    /\ presented = {}

\* the values cbGetSolution can return for an arc: 0.5, 0.6 and 1.0 besides 0
SetValues == {5, 6, 10}

\* the callback's values differ from 0 on one more arc
EngineSetValue ==
    /\ probe = NoProbe
    /\ Cardinality({a \in Arcs : cand[a] # 0}) < MaxWrites
    /\ \E a \in Arcs : \E v \in SetValues :
        /\ cand[a] = 0
        /\ cand' = [cand EXCEPT ![a] = v]
    /\ UNCHANGED <<n, cost, ctl, status, cuts, where, xfinal, sepPc, remaining, traced,
                   emitted, optimizeCalls, finalReads, result, dpOut, verdict,
                   presented>>
    /\ UNCHANGED probe

\* __next_vertex(i)
call_next_vertex ==
    /\ probe = NoProbe
    /\ \E i \in Vertices :
        LET r == next_vertex(ValueView, n, i)
        IN probe' = [kind |-> IF r.raised THEN "RuntimeError" ELSE "returned",
                     of |-> i, val |-> r.val]
    /\ UNCHANGED <<n, cost, ctl, status, cuts, where, cand, xfinal, sepPc, remaining,
                   traced, emitted, optimizeCalls, finalReads, result, dpOut, verdict,
                   presented>>

NextNext ==
    \/ EngineSetValue
    \/ call_next_vertex

SpecNext == InitNext /\ [][NextNext]_vars

-----------------------------------------------------------------------------
(* What the claims speak of *)

\* the head of the one arc of value 1 that leaves i
SuccessorIn(xv, i) == CHOOSE j \in Vertices \ {i} : xv[<<i, j>>] = 10

RECURSIVE Walk(_, _, _)
Walk(xv, i, steps) == IF steps = 0 THEN i ELSE Walk(xv, SuccessorIn(xv, i), steps - 1)

\* the vertices of the cycle of xv through i
CycleOf(xv, i) == {Walk(xv, i, steps) : steps \in 0 .. (n - 1)}

CyclesOf(xv) == {CycleOf(xv, i) : i \in Vertices}

SingleCycle(xv) == CyclesOf(xv) = {Vertices}

\* the arcs that leave the vertex set S
Leaving(S) == {a \in Arcs : a[1] \in S /\ a[2] \notin S}

NoRepeat(s) == \A p, q \in 1 .. Len(s) : s[p] = s[q] => p = q

\* the arc values of the closed tour t
TourValues(t) ==
    [a \in ArcsOf(Len(t)) |->
        IF \E p \in 1 .. Len(t) : a[1] = t[p] /\ a[2] = t[(p % Len(t)) + 1]
        THEN 10 ELSE 0]

\* the arc values of every order of the k vertices read as a closed tour
HamiltonianTable == [k \in 1 .. LargestN |-> {TourValues(t) : t \in ToursOf(k)}]
HamiltonianValues(k) == HamiltonianTable[k]

\* a run of __separate on a candidate has returned
SeparatedCandidate == sepPc = "returned" /\ where = "MIPSOL"

\* C1: when __separate has run to the end on a degree-valid integral candidate
\* that is not one Hamiltonian cycle, every vertex lies in exactly one traced
\* cycle and no traced cycle holds a vertex twice, whatever the pop order.
C1_TracedCyclesPartition ==
    (SeparatedCandidate /\ ~SingleCycle(cand)) =>
        /\ \A v \in Vertices :
              Cardinality({q \in 1 .. Len(traced) : v \in SeqSet(traced[q])}) = 1
        /\ \A q \in 1 .. Len(traced) : NoRepeat(traced[q])
        /\ remaining = {}

C1_Witness ==
    /\ SeparatedCandidate /\ ~SingleCycle(cand)
    /\ n = 5 /\ Len(traced) = 2
    /\ Len(traced[1]) = 3 /\ traced[1][1] = 4

\* C2: every cut __separate has handed to cbLazy holds of every Hamiltonian
\* tour of the instance: each closed tour through all vertices has an arc of
\* the cut, so the sum of its values over the cut is at least 1.
C2_CutsKeepEveryTour ==
    \A q \in 1 .. Len(emitted) :
        \A tv \in HamiltonianValues(n) : SatisfiesCut(tv, emitted[q])

C2_Witness ==
    /\ SeparatedCandidate /\ Len(emitted) = 2 /\ n = 4
    /\ \E tv \in HamiltonianValues(n) : SumOver(emitted[1], tv) = 20

\* C3: the cuts of one run of __separate are fixed by the candidate: none for
\* one Hamiltonian cycle, else one cut per cycle of the candidate, each the
\* arcs leaving the vertex set of the cycle traced with it, whatever the pop
\* order; so two runs on one candidate give the same set of cuts.
C3_CutsFixedByCandidate ==
    SeparatedCandidate =>
        IF SingleCycle(cand) THEN emitted = <<>>
        ELSE /\ Len(emitted) = Cardinality(CyclesOf(cand))
             /\ Len(emitted) = Len(traced)
             /\ \A q \in 1 .. Len(emitted) : emitted[q] = Leaving(SeqSet(traced[q]))
             /\ SeqSet(emitted) = {Leaving(S) : S \in CyclesOf(cand)}

C3_Witness ==
    /\ SeparatedCandidate /\ n = 4
    /\ CyclesOf(cand) = {{0, 1}, {2, 3}}
    /\ Len(emitted) = 2
    /\ SeqSet(emitted) = {Leaving({0, 1}), Leaving({2, 3})}

\* the cost of the closed tour t: its consecutive arcs and the arc back to the first
TourCost(t) ==
    IF Len(t) < 2 THEN 0
    ELSE SumSeq([p \in 1 .. Len(t) |-> cost[<<t[p], t[(p % Len(t)) + 1]>>]])

\* the cost of the path that starts at 0 and then visits s in order
PathCost(s) ==
    SumSeq([p \in 1 .. Len(s) |-> cost[<<IF p = 1 THEN 0 ELSE s[p - 1], s[p]>>]])

\* v is the least value of f over the non-empty set S
IsLeast(v, S, f(_)) == (\E x \in S : f(x) = v) /\ (\A x \in S : f(x) >= v)

\* C4: for n >= 2, tsp_dp returns the least closed-tour cost over the orders of
\* the vertices that start at the depot 0, and dp(S, last) is the least cost of
\* a path from 0 through exactly the vertices of S that ends at last.
C4_HeldKarpIsMinimum ==
    (dpOut.kind # "none" /\ n >= 2) =>
        /\ dpOut.kind = "value"
        /\ IsLeast(dpOut.val, {t \in ToursOf(n) : t[1] = 0}, TourCost)
        /\ \A S \in (SUBSET (1 .. (n - 1))) \ {{}} : \A last \in S :
              IsLeast(dp(cost, S, last),
                      {s \in OrdersOf(S) : s[Len(s)] = last}, PathCost)

C4_Witness ==
    /\ dpOut.kind = "value" /\ n = 4
    /\ \E a \in Arcs : cost[a] # cost[<<a[2], a[1]>>]
    /\ dpOut.val > n * LightCost

\* C5: when solve() has returned a Solution, its cost is what tsp_dp returns on
\* the same instance, so the cross-check cell finds the two costs equal; on the
\* square of side 10 both are 40 (40000 thousandths).
C5_BranchAndCutEqualsHeldKarp ==
    /\ ctl = "OPTIMAL" =>
          /\ result.kind = "Solution"
          /\ tsp_dp(n, cost).kind = "value"
          /\ result.cost = tsp_dp(n, cost).val
    /\ result.kind = "Solution" => result.cost = tsp_dp(n, cost).val
    /\ verdict # "none" => verdict = "same" /\ dpOut = tsp_dp(n, cost)
    /\ (cost = SquareCost /\ result.kind = "Solution") => result.cost = 40 * CostScale
    /\ (cost = SquareCost /\ verdict # "none") => dpOut.val = 40 * CostScale

C5_Witness ==
    /\ verdict = "same" /\ cost = SquareCost
    /\ result.cost = 40 * CostScale /\ dpOut.val = 40 * CostScale
    /\ cuts # {}

\* C6: a Solution returned by solve() carries a tour that starts at vertex 0,
\* has length n and holds every vertex once; the incumbent the engine ends
\* with is one cycle through all vertices, never an assignment with a subtour.
C6_ReturnedTourIsHamiltonian ==
    /\ (ctl = "OPTIMAL" \/ result.kind = "Solution") =>
          /\ result.kind = "Solution"
          /\ Len(result.tour) = n
          /\ result.tour[1] = 0
          /\ SeqSet(result.tour) = Vertices
          /\ NoRepeat(result.tour)
    /\ xfinal # NoValues => SingleCycle(xfinal)

C6_Witness ==
    /\ result.kind = "Solution" /\ n = 4 /\ cuts # {}
    /\ result.tour # <<0, 1, 2, 3>>

Terminal == {"OPTIMAL", "INFEASIBLE", "ERROR"}

\* the moves of one call of solve() and the error of a call whose engine did
\* not end OPTIMAL: no Solution, no final tour trace, no further optimize call
C7_Call ==
    /\ ctl = "CONFIGURED" => ctl' \in {"CONFIGURED", "SEARCHING"}
    /\ ctl = "SEARCHING" => ctl' \in {"SEARCHING"} \cup Terminal
    /\ ctl' = "OPTIMAL" => status' = "OPTIMAL"
    /\ (ctl = "SEARCHING" /\ ctl' # "SEARCHING" /\ status # "OPTIMAL") =>
          /\ ctl' = (IF status = "INFEASIBLE" THEN "INFEASIBLE" ELSE "ERROR")
          /\ result'.kind = "RuntimeError"
          /\ finalReads' = finalReads
          /\ optimizeCalls' = optimizeCalls

\* nothing of the controller moves in a terminal state
C7_Rests ==
    /\ ctl' = ctl /\ result' = result /\ status' = status
    /\ optimizeCalls' = optimizeCalls /\ finalReads' = finalReads

\* solve() is called once more on the same solver
C7_CalledAgain ==
    /\ ctl' = "SEARCHING" /\ optimizeCalls' = optimizeCalls + 1
    /\ result' = result /\ finalReads' = finalReads

\* C7 as stated: CONFIGURED -> SEARCHING -> one terminal state, terminal states
\* absorbing; a run whose engine status is not OPTIMAL ends in an error that
\* names the engine's status, with no Solution, no final tour trace and no
\* second optimize call.
C7_ErrorNamesStatus ==
    [][/\ C7_Call
       /\ ctl \in Terminal => C7_Rests
       /\ (ctl = "SEARCHING" /\ ctl' # "SEARCHING" /\ status # "OPTIMAL") =>
             status \in SeqSet(result'.msg)]_vars

\* C7 as amended: a terminal state lasts until solve() is called again on the
\* solver, which takes it back to SEARCHING with one more optimize call; and
\* the error is the RuntimeError with the fixed message "Could not solve TSP
\* model to optimality", which names no status.
C7_ErrorHasFixedMessage ==
    [][/\ C7_Call
       /\ ctl \in Terminal => (C7_Rests \/ C7_CalledAgain)
       /\ (ctl = "SEARCHING" /\ ctl' # "SEARCHING" /\ status # "OPTIMAL") =>
             /\ result'.msg = <<"Could not solve TSP model to optimality">>
             /\ status \notin SeqSet(result'.msg)]_vars

C7_Witness ==
    /\ ctl = "ERROR" /\ status = "INTERRUPTED" /\ result.kind = "RuntimeError"
    /\ cuts # {} /\ finalReads = 1 /\ optimizeCalls = 2

\* C8: a TSPSolution built from a tour of all the vertices and the instance
\* has the cost of the closed tour: the sum of cost(tour[k], tour[(k+1) mod len]).
C8_SolutionCostIsTourCost ==
    (result.kind # "none" /\ ctl = "CONFIGURED") =>
        /\ result.kind = "Solution"
        /\ result.cost = TourCost(result.tour)

\* C9: __next_vertex(i) returns j only when j is the one vertex other than i
\* with value(i, j) > 0.5, and raises when there is none or more than one.
C9_UniqueSuccessorOrError ==
    probe.kind # "none" =>
        LET over == {j \in Vertices \ {probe.of} : 2 * cand[<<probe.of, j>>] > 10}
        IN IF Cardinality(over) = 1
           THEN probe.kind = "returned" /\ probe.val \in over
           ELSE probe.kind = "RuntimeError"

\* C10: on the instance of one vertex tsp_dp returns 0 and solve() returns the
\* Solution of cost 0 and tour [0], with no cut submitted and no separation
\* run, and neither call raises.
C10_OneVertexInstance ==
    (n = 1 /\ ctl \in Terminal) =>
        /\ result.kind = "Solution" /\ result.cost = 0 /\ result.tour = <<0>>
        /\ cuts = {} /\ traced = <<>>
        /\ tsp_dp(n, cost) = [kind |-> "value", val |-> 0]

\* the engine calls the callback with a new candidate in this step
Presents == where # "MIPSOL" /\ where' = "MIPSOL"

\* the pth cut of the running __separate call is the sum over the arcs leaving
\* the pth traced subtour C, the candidate's arcs of value 1 with tail in C have
\* their head in C, and the candidate's sum over the cut is 0, short of 1
CutExcludesCandidate(p) ==
    LET C == SeqSet(traced[p])
    IN /\ emitted[p] = Leaving(C)
       /\ C # Vertices
       /\ \A a \in Arcs : (cand[a] = 10 /\ a[1] \in C) => a[2] \in C
       /\ SumOver(emitted[p], cand) = 0
       /\ ~SatisfiesCut(cand, emitted[p])
       /\ emitted[p] \in cuts

\* C11: every cut __separate hands to cbLazy for a subtour C is violated by
\* the candidate it was traced in (the candidate's sum over the arcs leaving C
\* is 0 < 1), and an engine that keeps to the cuts it holds never calls the
\* callback with a candidate it has called it with before.
C11_CutsExcludeCandidate ==
    /\ [](where = "MIPSOL" =>
            /\ cand \in DegreeValid(n)
            /\ emitted # <<>> => Len(traced) = Len(emitted)
            /\ \A p \in 1 .. Len(emitted) : CutExcludesCandidate(p))
    /\ [][Presents =>
            /\ cand' \notin presented
            /\ \A cut \in cuts : SatisfiesCut(cand', cut)]_vars

C11_Witness ==
    /\ where = "MIPSOL" /\ sepPc = "returned"
    /\ Len(emitted) = 2
    /\ Cardinality(presented) >= 2
    /\ Cardinality(cuts) >= 4

\* every trace __tour_starting_at can be asked for in the running callback
\* comes back to its start within n steps
TracesClose ==
    \A i \in Vertices :
        LET t == tour_starting_at(cand, n, i)
        IN t.kind = "tour" /\ Len(t.tour) <= n /\ t.tour[1] = i

\* C12: for n >= 2, under an engine that presents only degree-valid integral
\* candidates satisfying the cuts it holds and that goes on with its search,
\* every trace of a cycle returns to its start within n steps, remaining
\* strictly shrinks in every pass of the loop of __separate, every __separate
\* call returns, and solve() leaves SEARCHING for OPTIMAL, INFEASIBLE or ERROR.
C12_SearchRunsToCompletion ==
    /\ []((n >= 2 /\ where = "MIPSOL") =>
            /\ cand \in Feasible(n, cuts \ SeqSet(emitted))
            /\ TracesClose
            /\ sepPc # "raised"
            /\ \A p \in 1 .. Len(traced) : Len(traced[p]) <= n)
    /\ [][(n >= 2 /\ sepPc = "loop") =>
            (remaining' \subseteq remaining /\ remaining' # remaining)]_vars
    /\ ((n >= 2 /\ sepPc \in {"entry", "loop"}) ~> sepPc = "returned")
    /\ ((n >= 2 /\ ctl = "SEARCHING") ~> ctl \in Terminal)

C12_Witness ==
    /\ n >= 2 /\ ctl = "OPTIMAL" /\ result.kind = "Solution"
    /\ Cardinality(presented) >= 3
    /\ Cardinality(cuts) >= 4
    /\ optimizeCalls = 1

====
